---------------------------- MODULE Spec2Model ----------------------------
(***************************************************************************)
(* A model of apod-async-client: the Date parameter (src/src/date.rs),     *)
(* the URL builder, the rate-limit header extraction and the request       *)
(* execution of APODClient::get_picture (src/src/client.rs), and the       *)
(* decoding of the response body into APODMetadata (src/src/model.rs).     *)
(*                                                                         *)
(* Text is a TLA+ string; TLC evaluates Len, \o and SubSeq on strings.     *)
(* Header values are byte sequences, as http::HeaderValue holds them.      *)
(***************************************************************************)
EXTENDS Integers, Sequences, FiniteSets, TLC

VARIABLES
    client,   \* the APODClient: [base_url, api_key]
    calls,    \* one record per get_picture future
    env,      \* which inputs the callers and the server draw from
    unit      \* the last direct invocation of as_param / build_url

vars == <<client, calls, env, unit>>

---------------------------------------------------------------------------
(* Option<T> and Result<T, E> *)

None == [some |-> FALSE]
Some(v) == [some |-> TRUE, val |-> v]

Ok(v) == [ok |-> TRUE, val |-> v]
Err(e) == [ok |-> FALSE, err |-> e]

---------------------------------------------------------------------------
(* Characters *)

Ch(s, i) == SubSeq(s, i, i)

Chars(s) == {Ch(s, i) : i \in 1..Len(s)}

InStr(c, s) == \E i \in 1..Len(s) : Ch(s, i) = c

Digits == "0123456789"
Upper == "ABCDEFGHIJKLMNOPQRSTUVWXYZ"
Lower == "abcdefghijklmnopqrstuvwxyz"
HexDigits == "0123456789ABCDEF"

IsDigit == Chars(Digits)
IsAlpha == Chars(Upper) \cup Chars(Lower)

\* the printable ASCII characters in code order: 0x20 (space) to 0x5F, and
\* 0x61 to 0x7E (0x60, the backtick, cannot be written in a TLA+ string)
AsciiLow ==
    " !\"#$%&'()*+,-./0123456789:;<=>?@ABCDEFGHIJKLMNOPQRSTUVWXYZ[\\]^_"
AsciiHigh == "abcdefghijklmnopqrstuvwxyz{|}~"

ByteOf(c) ==
    IF InStr(c, AsciiLow)
    THEN 31 + (CHOOSE i \in 1..Len(AsciiLow) : Ch(AsciiLow, i) = c)
    ELSE 96 + (CHOOSE i \in 1..Len(AsciiHigh) : Ch(AsciiHigh, i) = c)

---------------------------------------------------------------------------
(* Date (date.rs) *)

Today == [kind |-> "Today"]
ExplicitDate(d, m, y) == [kind |-> "Date", day |-> d, month |-> m, year |-> y]

\* format!("{}", n): the decimal digits of n, no padding
RECURSIVE to_string(_)
to_string(n) ==
    IF n < 10 THEN Ch(Digits, n + 1)
    ELSE to_string(n \div 10) \o Ch(Digits, (n % 10) + 1)

\* format!("{:0w}", n): zero-filled on the left up to a minimum width w
RECURSIVE zero_pad(_, _)
zero_pad(s, w) == IF Len(s) >= w THEN s ELSE zero_pad("0" \o s, w)

as_param_unpadded(date) ==
    IF date.kind = "Today" THEN None
    ELSE Some(to_string(date.year) \o "-" \o to_string(date.month)
              \o "-" \o to_string(date.day))

as_param(date) ==
    IF date.kind = "Today" THEN None
    ELSE Some(to_string(date.year)
              \o "-" \o zero_pad(to_string(date.month), 2)
              \o "-" \o zero_pad(to_string(date.day), 2))

---------------------------------------------------------------------------
(* Url::parse_with_params, as build_url uses it (client.rs:131) *)

\* form_urlencoded::byte_serialize of one character
encode_char(c) ==
    IF c \in IsAlpha \/ c \in IsDigit \/ InStr(c, "*-._") THEN c
    ELSE IF c = " " THEN "+"
    ELSE "%" \o Ch(HexDigits, (ByteOf(c) \div 16) + 1)
             \o Ch(HexDigits, (ByteOf(c) % 16) + 1)

RECURSIVE byte_serialize(_)
byte_serialize(s) ==
    IF s = "" THEN ""
    ELSE encode_char(Ch(s, 1)) \o byte_serialize(SubSeq(s, 2, Len(s)))

\* the first position at or after `from` holding a character of `set`,
\* Len(s) + 1 when there is none
IndexOf(s, set, from) ==
    LET hits == {i \in from..Len(s) : InStr(Ch(s, i), set)}
    IN IF hits = {} THEN Len(s) + 1
       ELSE CHOOSE i \in hits : \A j \in hits : i <= j

RECURSIVE SkipSlashes(_, _)
SkipSlashes(s, from) ==
    IF from <= Len(s) /\ Ch(s, from) \in {"/", "\\"}
    THEN SkipSlashes(s, from + 1) ELSE from

IsScheme(s) ==
    /\ s # ""
    /\ Ch(s, 1) \in IsAlpha
    /\ \A i \in 1..Len(s) :
          Ch(s, i) \in IsAlpha \/ Ch(s, i) \in IsDigit \/ InStr(Ch(s, i), "+-.")

\* Url::parse for the http and https schemes.  The input is taken to be in
\* normal form already (lower case, no dot segments, no characters to
\* escape, no default port) but for what is done here: an absent path
\* becomes "/", and the query and the fragment are split off.
Url_parse(input) ==
    LET colon == IndexOf(input, ":", 1)
        scheme == SubSeq(input, 1, colon - 1)
        a0 == SkipSlashes(input, colon + 1)
        a1 == IndexOf(input, "/?#", a0)
        authority == SubSeq(input, a0, a1 - 1)
        pcolon == IndexOf(authority, ":", 1)
        host == SubSeq(authority, 1, pcolon - 1)
        port == SubSeq(authority, pcolon + 1, Len(authority))
        p1 == IndexOf(input, "?#", a1)
        q1 == IndexOf(input, "#", p1)
        path == SubSeq(input, a1, p1 - 1)
    IN IF colon > Len(input) \/ ~IsScheme(scheme)
          THEN Err("RelativeUrlWithoutBase")
       ELSE IF host = "" THEN Err("EmptyHost")
       ELSE IF \E i \in 1..Len(port) : Ch(port, i) \notin IsDigit
          THEN Err("InvalidPort")
       ELSE Ok([scheme |-> scheme,
                authority |-> authority,
                path |-> IF path = "" THEN "/" ELSE path,
                query |-> IF p1 <= Len(input) /\ Ch(input, p1) = "?"
                          THEN Some(SubSeq(input, p1 + 1, q1 - 1)) ELSE None,
                fragment |-> IF q1 <= Len(input)
                             THEN Some(SubSeq(input, q1 + 1, Len(input)))
                             ELSE None])

\* form_urlencoded::Serializer::extend_pairs onto a query string: a pair is
\* preceded by "&" unless the query is still empty
RECURSIVE extend_pairs(_, _)
extend_pairs(query, params) ==
    IF params = <<>> THEN query
    ELSE extend_pairs((IF query = "" THEN "" ELSE query \o "&")
                          \o byte_serialize(params[1][1]) \o "="
                          \o byte_serialize(params[1][2]),
                      Tail(params))

Url_parse_with_params(input, params) ==
    LET url == Url_parse(input)
    IN IF ~url.ok THEN url
       ELSE Ok([url.val EXCEPT !.query =
                   Some(extend_pairs(IF url.val.query.some THEN url.val.query.val
                                     ELSE "", params))])

\* Url::as_str
as_str(url) ==
    url.scheme \o "://" \o url.authority \o url.path
       \o (IF url.query.some THEN "?" \o url.query.val ELSE "")
       \o (IF url.fragment.some THEN "#" \o url.fragment.val ELSE "")

---------------------------------------------------------------------------
(* APODClient (client.rs) *)

DefaultBaseUrl == "https://api.nasa.gov/planetary/apod"

config(base_url, api_key) == [base_url |-> base_url, api_key |-> api_key]

new(api_key) == config(DefaultBaseUrl, api_key)

bool_to_string(b) == IF b THEN "true" ELSE "false"

build_url_date_first(self, date, hd) ==
    LET hd_param == bool_to_string(hd)
        maybe_date_param == as_param(date)
        params == (IF maybe_date_param.some
                   THEN <<<<"date", maybe_date_param.val>>>> ELSE <<>>)
                  \o <<<<"api_key", self.api_key>>, <<"hd", hd_param>>>>
        url == Url_parse_with_params(self.base_url, params)
    IN IF url.ok THEN url ELSE Err([kind |-> "InvalidURL", source |-> url.err])

build_url_default_fallback(self, date, hd) ==
    LET hd_param == bool_to_string(hd)
        params0 == <<<<"api_key", self.api_key>>, <<"hd", hd_param>>>>
        maybe_date_param == as_param(date)
        params == IF maybe_date_param.some
                  THEN Append(params0, <<"date", maybe_date_param.val>>)
                  ELSE params0
        url == Url_parse_with_params(self.base_url, params)
    IN IF url.ok THEN url ELSE Url_parse_with_params(DefaultBaseUrl, params)

build_url(self, date, hd) ==
    LET hd_param == bool_to_string(hd)
        params0 == <<<<"api_key", self.api_key>>, <<"hd", hd_param>>>>
        maybe_date_param == as_param(date)
        params == IF maybe_date_param.some
                  THEN Append(params0, <<"date", maybe_date_param.val>>)
                  ELSE params0
        url == Url_parse_with_params(self.base_url, params)
    IN IF url.ok THEN url ELSE Err([kind |-> "InvalidURL", source |-> url.err])

---------------------------------------------------------------------------
(* HTTP responses, as reqwest hands them to get_picture *)

\* the bytes of a text of printable ASCII characters
Bytes(s) == [i \in 1..Len(s) |-> ByteOf(Ch(s, i))]

\* http::HeaderName holds a name in lower case
LowerOf == [c \in Chars(Upper) |-> Ch(Lower, CHOOSE i \in 1..Len(Upper) : Ch(Upper, i) = c)]

to_ascii_lowercase_char(c) == IF c \in DOMAIN LowerOf THEN LowerOf[c] ELSE c

RECURSIVE to_ascii_lowercase(_)
to_ascii_lowercase(s) ==
    IF s = "" THEN ""
    ELSE to_ascii_lowercase_char(Ch(s, 1)) \o to_ascii_lowercase(SubSeq(s, 2, Len(s)))

\* Response::headers: the header lines of the response as a HeaderMap, here
\* the sequence of <<name, value>> with the names in lower case
headers(response) ==
    [i \in 1..Len(response.headers) |->
        <<to_ascii_lowercase(response.headers[i][1]), response.headers[i][2]>>]

\* HeaderMap::get: the first value held for the name
HeaderMap_get(map, name) ==
    LET hits == {i \in 1..Len(map) : map[i][1] = name}
    IN IF hits = {} THEN None
       ELSE Some(map[CHOOSE i \in hits : \A j \in hits : i <= j][2])

\* HeaderValue::to_str: the value as text when every byte is visible ASCII
\* (or a tab)
to_str(value) ==
    IF \A i \in 1..Len(value) : (value[i] >= 32 /\ value[i] < 127) \/ value[i] = 9
    THEN Ok(value) ELSE Err("ToStrError")

I32_MAX == 2147483647
I32_MIN == -I32_MAX - 1

\* i32::checked_mul, checked_add and checked_sub, for the operands the digit
\* loop gives them (b is 10 in checked_mul, a digit in the other two)
checked_mul(a, b) ==
    IF a > I32_MAX \div b \/ a < -(I32_MAX \div b) THEN None ELSE Some(a * b)
checked_add(a, b) == IF a > I32_MAX - b THEN None ELSE Some(a + b)
checked_sub(a, b) == IF a < I32_MIN + b THEN None ELSE Some(a - b)

\* the digit loop of i32::from_str: checked_mul(10), then checked_add or
\* checked_sub of the digit
RECURSIVE parse_digits(_, _, _)
parse_digits(digits, acc, is_positive) ==
    IF digits = <<>> THEN Ok(acc)
    ELSE IF digits[1] < 48 \/ digits[1] > 57 THEN Err("InvalidDigit")
    ELSE LET mul == checked_mul(acc, 10)
             next == IF ~mul.some THEN None
                     ELSE IF is_positive THEN checked_add(mul.val, digits[1] - 48)
                     ELSE checked_sub(mul.val, digits[1] - 48)
         IN IF ~next.some
            THEN Err(IF is_positive THEN "PosOverflow" ELSE "NegOverflow")
            ELSE parse_digits(Tail(digits), next.val, is_positive)

\* str::parse::<i32>
parse_i32(src) ==
    IF src = <<>> THEN Err("Empty")
    ELSE IF src[1] \in {43, 45} /\ Len(src) = 1 THEN Err("InvalidDigit")
    ELSE IF src[1] = 43 THEN parse_digits(Tail(src), 0, TRUE)
    ELSE IF src[1] = 45 THEN parse_digits(Tail(src), 0, FALSE)
    ELSE parse_digits(src, 0, TRUE)

\* headers.get(name).and_then(|h| h.to_str().ok())
\*     .and_then(|s| s.parse().ok()).unwrap_or(-1)
header_i32(map, name) ==
    LET h == HeaderMap_get(map, name)
        s == IF h.some THEN to_str(h.val) ELSE Err("absent")
        n == IF s.ok THEN parse_i32(s.val) ELSE Err("absent")
    IN IF n.ok THEN n.val ELSE -1

get_rate_limit_info_swapped(map) ==
    [remaining |-> header_i32(map, "x-ratelimit-limit"),
     limit |-> header_i32(map, "x-ratelimit-remaining")]

get_rate_limit_info_zero_default(map) ==
    LET remaining == HeaderMap_get(map, "x-ratelimit-remaining")
        limit == HeaderMap_get(map, "x-ratelimit-limit")
        num(h) == IF h.some /\ to_str(h.val).ok /\ parse_i32(h.val).ok
                  THEN parse_i32(h.val).val ELSE 0
    IN [remaining |-> num(remaining), limit |-> num(limit)]

get_rate_limit_info(map) ==
    [remaining |-> header_i32(map, "x-ratelimit-remaining"),
     limit |-> header_i32(map, "x-ratelimit-limit")]

\* StatusCode::is_client_error, StatusCode::is_server_error
is_client_error(status) == 400 <= status /\ status < 500
is_server_error(status) == 500 <= status /\ status < 600

error_for_status_client_only(response) ==
    IF is_client_error(response.status)
    THEN Err([status |-> Some(response.status)])
    ELSE Ok(response)

\* Response::error_for_status
error_for_status(response) ==
    IF is_client_error(response.status) \/ is_server_error(response.status)
    THEN Err([status |-> Some(response.status)])
    ELSE Ok(response)

---------------------------------------------------------------------------
(* APODMetadata (model.rs) and Response::json *)

JString(s) == [t |-> "string", s |-> s]
JNull == [t |-> "null"]
JNumber(n) == [t |-> "number", n |-> n]
JObject(fields) == [t |-> "object", fields |-> fields]

\* a field of type String: present, and a JSON string
required_string(fields, key) ==
    IF key \notin DOMAIN fields THEN Err("missing field")
    ELSE IF fields[key].t # "string" THEN Err("invalid type")
    ELSE Ok(fields[key].s)

\* a field of type Option<String>: absent or null is None
optional_string(fields, key) ==
    IF key \notin DOMAIN fields \/ fields[key].t = "null" THEN Ok(None)
    ELSE IF fields[key].t # "string" THEN Err("invalid type")
    ELSE Ok(Some(fields[key].s))

\* #[derive(Deserialize)] of APODMetadata, from a JSON value: the field
\* hd_url is read from the key "hdurl", unknown keys are ignored
deserialize_APODMetadata(value) ==
    IF value.t # "object" THEN Err("invalid type")
    ELSE LET f == value.fields
             title == required_string(f, "title")
             explanation == required_string(f, "explanation")
             copyright == optional_string(f, "copyright")
             url == required_string(f, "url")
             hd_url == optional_string(f, "hdurl")
             media_type == required_string(f, "media_type")
         IN IF ~title.ok \/ ~explanation.ok \/ ~copyright.ok
               \/ ~url.ok \/ ~hd_url.ok \/ ~media_type.ok
            THEN Err("data")
            ELSE Ok([title |-> title.val, explanation |-> explanation.val,
                     copyright |-> copyright.val, url |-> url.val,
                     hd_url |-> hd_url.val, media_type |-> media_type.val])

\* Response::json: read the whole body, parse it as JSON, deserialize.  A
\* body is "aborted" (the stream fails before its end), "text" (bytes that
\* are no JSON document) or "json" (a JSON document, by its value).
json(response) ==
    IF response.body.kind = "aborted" THEN Err("body")
    ELSE IF response.body.kind = "text" THEN Err("syntax")
    ELSE deserialize_APODMetadata(response.body.value)

---------------------------------------------------------------------------
(* The inputs *)

NumCalls == 2

Years == {0, 7, 986, 1986, 9999, 10000, 65535}
Months == {0, 6, 12, 99, 100, 255}
Days == {0, 1, 9, 31, 100, 255}

AllDates ==
    {Today} \cup {ExplicitDate(d, m, y) : d \in Days, m \in Months, y \in Years}

MockBaseUrl == "http://127.0.0.1:1234/apod"

BaseUrls ==
    {DefaultBaseUrl, MockBaseUrl,
     "https://api.nasa.gov",
     "https://api.nasa.gov/planetary/apod?v=1",
     "https://api.nasa.gov/planetary/apod?",
     "https://api.nasa.gov/planetary/apod#top",
     "api.nasa.gov/planetary/apod", "", "http://", "http://h:8x/apod"}

ApiKeys == {"my_key", "MYKEY", "a b&c", ""}

AllClients == {config(b, k) : b \in BaseUrls, k \in ApiKeys}

Clients ==
    {new("my_key"), config(MockBaseUrl, "MYKEY"),
     config("api.nasa.gov/planetary/apod", "my_key"), config("http://", "")}

RemainingValues ==
    {Bytes("42"), Bytes("0"), Bytes("00"), Bytes("-0"), Bytes("+7"), Bytes("-5"),
     Bytes(""), Bytes("abc"), Bytes("4 2"), Bytes("-"),
     Bytes("2147483647"), Bytes("2147483648"),
     Bytes("-2147483648"), Bytes("-2147483649"),
     <<52, 233>>}

LimitValues == {Bytes("100"), Bytes("0"), Bytes("x")}

Choices(values) == {None} \cup {Some(v) : v \in values}

HeaderLines(name, choice) ==
    IF choice.some THEN <<<<name, choice.val>>>> ELSE <<>>

HeaderLists ==
    {HeaderLines("x-ratelimit-remaining", r) \o HeaderLines("x-ratelimit-limit", l) :
        r \in Choices(RemainingValues), l \in Choices(LimitValues)}
    \cup
    {<<<<"X-RateLimit-Limit", Bytes("100")>>, <<"X-RateLimit-Remaining", Bytes("0")>>>>,
     <<<<"X-RateLimit-Limit", Bytes("100")>>, <<"X-RateLimit-Remaining", Bytes("42")>>>>,
     <<<<"x-ratelimit-remaining", Bytes("0")>>, <<"x-ratelimit-remaining", Bytes("42")>>>>,
     <<<<"x-ratelimit-remaining", Bytes("42")>>, <<"x-ratelimit-remaining", Bytes("0")>>>>}

Statuses == {200, 204, 304, 403, 500}

OkJson ==
    JObject("title" :> JString("The Star Streams of NGC 5907")
         @@ "explanation" :> JString("explanation ...")
         @@ "copyright" :> JString("R Jay Gabany")
         @@ "url" :> JString("https://apod.nasa.gov/apod/image/1911/ngc5907_gabany_rcl1024.jpg")
         @@ "hdurl" :> JString("https://apod.nasa.gov/apod/image/1911/ngc5907_gabany_rcl.jpg")
         @@ "media_type" :> JString("image")
         @@ "date" :> JString("2019-11-27")
         @@ "service_version" :> JString("v1"))

VideoJson ==
    JObject("title" :> JString("t") @@ "explanation" :> JString("e")
         @@ "url" :> JString("u") @@ "media_type" :> JString("video"))

Without(object, key) ==
    JObject([k \in DOMAIN object.fields \ {key} |-> object.fields[k]])

With(object, key, value) ==
    JObject([k \in DOMAIN object.fields \cup {key} |->
                IF k = key THEN value ELSE object.fields[k]])

JsonBody(value) == [kind |-> "json", value |-> value]

Bodies ==
    {JsonBody(OkJson), JsonBody(VideoJson),
     JsonBody(With(OkJson, "copyright", JNull)),
     JsonBody(With(VideoJson, "hdurl", JNumber(7))),
     JsonBody(Without(OkJson, "title")),
     JsonBody(With(OkJson, "media_type", JNull)),
     JsonBody(JString("image")),
     JsonBody(JObject(<<>>)),
     [kind |-> "text"], [kind |-> "aborted"]}

Responses == [status : Statuses, headers : HeaderLists, body : Bodies]

ConcResponses ==
    [status : {200, 403},
     headers : {HeaderLines("x-ratelimit-remaining", Some(Bytes(r)))
                  \o HeaderLines("x-ratelimit-limit", Some(Bytes("100"))) :
                r \in {"42", "0"}},
     body : {JsonBody(OkJson), [kind |-> "text"]}]

\* the arguments a caller may pass and the responses the server may give
Dates(e) ==
    IF e = "unit" THEN AllDates
    ELSE IF e = "concurrent" THEN {Today}
    ELSE {Today, ExplicitDate(1, 6, 1986)}

ServerResponses(e) == IF e = "concurrent" THEN ConcResponses ELSE Responses

---------------------------------------------------------------------------
(* APODClient::get_picture (client.rs:87-119), between its await points *)

InvalidURL(source) == [kind |-> "InvalidURL", source |-> source]
RateLimitError == [kind |-> "RateLimitError"]
IOError == [kind |-> "IOError"]
RequestStatusError(status) == [kind |-> "RequestStatusError", status |-> status]
DecodeError == [kind |-> "DecodeError"]

\* lines 95-109 in the order status, then rate limit
on_response_status_first(response) ==
    LET rate_limit_info == get_rate_limit_info(headers(response))
        checked == error_for_status(response)
    IN IF ~checked.ok
          THEN [rate_limit_info |-> rate_limit_info,
                returns |-> Some(Err(RequestStatusError(checked.err.status.val)))]
       ELSE IF rate_limit_info.remaining = 0
          THEN [rate_limit_info |-> rate_limit_info,
                returns |-> Some(Err(RateLimitError))]
       ELSE [rate_limit_info |-> rate_limit_info, returns |-> None]

\* lines 95-109 without the check of lines 96-98
on_response_no_rate_check(response) ==
    LET rate_limit_info == get_rate_limit_info(headers(response))
        checked == error_for_status(response)
    IN IF ~checked.ok
          THEN [rate_limit_info |-> rate_limit_info,
                returns |-> Some(Err(RequestStatusError(checked.err.status.val)))]
       ELSE [rate_limit_info |-> rate_limit_info, returns |-> None]

\* lines 95-109: what get_picture does with the response reqwest::get
\* resolved to, up to the next await (response.json()): the local
\* rate_limit_info, and the value returned early, if any
on_response(response) ==
    LET rate_limit_info == get_rate_limit_info(headers(response))
        checked == error_for_status(response)
    IN IF rate_limit_info.remaining = 0
          THEN [rate_limit_info |-> rate_limit_info,
                returns |-> Some(Err(RateLimitError))]
       ELSE IF ~checked.ok
          THEN [rate_limit_info |-> rate_limit_info,
                returns |-> Some(Err(RequestStatusError(checked.err.status.val)))]
       ELSE [rate_limit_info |-> rate_limit_info, returns |-> None]

\* lines 111-118: what get_picture returns once response.json() resolved
on_body(response, rate_limit_info) ==
    LET pic == json(response)
    IN IF ~pic.ok THEN Err(DecodeError)
       ELSE Ok(<<pic.val, rate_limit_info>>)

IdleCall ==
    [pc |-> "idle", date |-> None, hd |-> None, gets |-> 0, request |-> None,
     response |-> None, rate_limit_info |-> None, result |-> None]

Callers == DOMAIN calls

Returned(c, call, result) ==
    calls' = [calls EXCEPT ![c] = [call EXCEPT !.pc = "done", !.result = Some(result)]]


\* get_picture is called: lines 88-89, up to the await of reqwest::get
Start(c, date, hd) ==
    /\ calls[c].pc = "idle"
    /\ LET url == build_url(client, date, hd)
           call == [calls[c] EXCEPT !.date = Some(date), !.hd = Some(hd)]
       IN IF ~url.ok THEN Returned(c, call, Err(url.err))
          ELSE calls' = [calls EXCEPT ![c] =
                            [call EXCEPT !.pc = "awaiting_response",
                                         !.gets = @ + 1,
                                         !.request = Some(as_str(url.val))]]
    /\ UNCHANGED <<client, env, unit>>

\* the server answers the GET of call c
ServerResponds(c) ==
    /\ calls[c].pc = "awaiting_response"
    /\ ~calls[c].response.some
    /\ \E response \in ServerResponses(env) :
          calls' = [calls EXCEPT ![c].response = Some(response)]
    /\ UNCHANGED <<client, env, unit>>

TransportFailureRetry(c) ==
    /\ calls[c].pc = "awaiting_response"
    /\ ~calls[c].response.some
    /\ IF calls[c].gets < 2
       THEN calls' = [calls EXCEPT ![c].gets = @ + 1]
       ELSE Returned(c, calls[c], Err(IOError))
    /\ UNCHANGED <<client, env, unit>>

\* reqwest::get resolves to an error: lines 89-93
TransportFailure(c) ==
    /\ calls[c].pc = "awaiting_response"
    /\ ~calls[c].response.some
    /\ Returned(c, calls[c], Err(IOError))
    /\ UNCHANGED <<client, env, unit>>

OnResponseShared(c) ==
    /\ calls[c].pc = "awaiting_response"
    /\ calls[c].response.some
    /\ \E d \in Callers :
         /\ calls[d].response.some
         /\ LET r == on_response(calls[c].response.val)
                shared == get_rate_limit_info(headers(calls[d].response.val))
                call == [calls[c] EXCEPT !.rate_limit_info = Some(shared)]
            IN IF r.returns.some THEN Returned(c, call, r.returns.val)
               ELSE calls' = [calls EXCEPT ![c] = [call EXCEPT !.pc = "awaiting_body"]]
    /\ UNCHANGED <<client, env, unit>>

\* reqwest::get resolves to a response: lines 95-112, up to the await of
\* response.json()
OnResponse(c) ==
    /\ calls[c].pc = "awaiting_response"
    /\ calls[c].response.some
    /\ LET r == on_response(calls[c].response.val)
           call == [calls[c] EXCEPT !.rate_limit_info = Some(r.rate_limit_info)]
       IN IF r.returns.some THEN Returned(c, call, r.returns.val)
          ELSE calls' = [calls EXCEPT ![c] = [call EXCEPT !.pc = "awaiting_body"]]
    /\ UNCHANGED <<client, env, unit>>

\* response.json() resolves: lines 111-118
OnBody(c) ==
    /\ calls[c].pc = "awaiting_body"
    /\ Returned(c, calls[c], on_body(calls[c].response.val, calls[c].rate_limit_info.val))
    /\ UNCHANGED <<client, env, unit>>

---------------------------------------------------------------------------
(* Direct invocations of the two pure functions, as the unit tests of      *)
(* date.rs and client.rs make them                                         *)

NoUnit == [fn |-> "none"]

Call_as_param(date) ==
    /\ unit = NoUnit
    /\ unit' = [fn |-> "as_param", date |-> date, ret |-> as_param(date)]
    /\ UNCHANGED <<client, calls, env>>

Call_build_url(date, hd) ==
    /\ unit = NoUnit
    /\ unit' = [fn |-> "build_url", date |-> date, hd |-> hd,
                ret |-> build_url(client, date, hd)]
    /\ UNCHANGED <<client, calls, env>>

---------------------------------------------------------------------------
(* The specifications *)

Next ==
    \/ \E c \in Callers, date \in Dates(env), hd \in BOOLEAN : Start(c, date, hd)
    \/ \E c \in Callers : ServerResponds(c)
    \/ \E c \in Callers : TransportFailure(c)
    \/ \E c \in Callers : OnResponse(c)
    \/ \E c \in Callers : OnBody(c)

NextUnit ==
    \/ \E date \in Dates(env) : Call_as_param(date)
    \/ \E date \in Dates(env), hd \in BOOLEAN : Call_build_url(date, hd)

\* one call of get_picture, over every response
Init ==
    /\ client \in Clients
    /\ calls = [c \in {1} |-> IdleCall]
    /\ env = "single"
    /\ unit = NoUnit

Spec == Init /\ [][Next]_vars

\* NumCalls concurrent calls of get_picture through one client
InitConc ==
    /\ client \in {config(MockBaseUrl, "MYKEY"), config("http://", "MYKEY")}
    /\ calls = [c \in 1..NumCalls |-> IdleCall]
    /\ env = "concurrent"
    /\ unit = NoUnit

SpecConc == InitConc /\ [][Next]_vars

\* as_param and build_url alone, over every date and client
InitUnit ==
    /\ client \in AllClients
    /\ calls = [c \in {1} |-> IdleCall]
    /\ env = "unit"
    /\ unit = NoUnit

SpecUnit == InitUnit /\ [][NextUnit]_vars

---------------------------------------------------------------------------
(* What the properties below read off a call, and the values they expect,  *)
(* written down independently of the operators above                       *)

\* get_picture has acted on the response it received
Processed(call) == call.response.some /\ call.pc # "awaiting_response"

Returns(call, result) == call.pc = "done" /\ call.result = Some(result)

\* the header texts that read as a 32-bit integer, with the integer
IntegerTexts ==
    {<<Bytes("42"), 42>>, <<Bytes("0"), 0>>, <<Bytes("00"), 0>>, <<Bytes("-0"), 0>>,
     <<Bytes("+7"), 7>>, <<Bytes("-5"), -5>>, <<Bytes("100"), 100>>,
     <<Bytes("2147483647"), I32_MAX>>, <<Bytes("-2147483648"), I32_MIN>>}

\* the integer of the first header line of that name (in any case), -1 when
\* there is no such line or its value is no integer text
ExpectedCount(response, names) ==
    LET lines == {i \in 1..Len(response.headers) : response.headers[i][1] \in names}
        first == CHOOSE i \in lines : \A j \in lines : i <= j
        reads == {p \in IntegerTexts : p[1] = response.headers[first][2]}
    IN IF lines = {} \/ reads = {} THEN -1 ELSE (CHOOSE p \in reads : TRUE)[2]

ExpectedRemaining(response) ==
    ExpectedCount(response, {"x-ratelimit-remaining", "X-RateLimit-Remaining"})

ExpectedLimit(response) ==
    ExpectedCount(response, {"x-ratelimit-limit", "X-RateLimit-Limit"})

IsSuccess(status) == status \in 200..299

\* the bodies that match the metadata schema, with the record they hold
DecodableBodies ==
    {<<JsonBody(OkJson),
       [title |-> "The Star Streams of NGC 5907",
        explanation |-> "explanation ...",
        copyright |-> Some("R Jay Gabany"),
        url |-> "https://apod.nasa.gov/apod/image/1911/ngc5907_gabany_rcl1024.jpg",
        hd_url |-> Some("https://apod.nasa.gov/apod/image/1911/ngc5907_gabany_rcl.jpg"),
        media_type |-> "image"]>>,
     <<JsonBody(With(OkJson, "copyright", JNull)),
       [title |-> "The Star Streams of NGC 5907",
        explanation |-> "explanation ...",
        copyright |-> None,
        url |-> "https://apod.nasa.gov/apod/image/1911/ngc5907_gabany_rcl1024.jpg",
        hd_url |-> Some("https://apod.nasa.gov/apod/image/1911/ngc5907_gabany_rcl.jpg"),
        media_type |-> "image"]>>,
     <<JsonBody(VideoJson),
       [title |-> "t", explanation |-> "e", copyright |-> None, url |-> "u",
        hd_url |-> None, media_type |-> "video"]>>}

Decodable(body) == \E p \in DecodableBodies : p[1] = body

ExpectedMetadata(body) == (CHOOSE p \in DecodableBodies : p[1] = body)[2]

\* C1: a received response whose remaining count reads exactly 0 makes the
\* call return RateLimitError, whatever its status and its body
RateLimitPrecedes ==
    \A c \in Callers :
        (Processed(calls[c]) /\ ExpectedRemaining(calls[c].response.val) = 0)
            => Returns(calls[c], Err(RateLimitError))

RateLimitPrecedesWitness ==
    \E c \in Callers :
        /\ Returns(calls[c], Err(RateLimitError))
        /\ calls[c].response.val.status = 403
        /\ calls[c].response.val.body = JsonBody(OkJson)

\* C2 as stated: every status outside 2xx, with a remaining count other than
\* 0, makes the call return RequestStatusError with that status
NonSuccessIsStatusError ==
    \A c \in Callers :
        (/\ Processed(calls[c])
         /\ ~IsSuccess(calls[c].response.val.status)
         /\ ExpectedRemaining(calls[c].response.val) # 0)
            => Returns(calls[c], Err(RequestStatusError(calls[c].response.val.status)))

\* C2 as amended: every client or server error status (400 to 599), with a
\* remaining count other than 0, makes the call return RequestStatusError
\* with that status, before the body is read
ErrorStatusIsStatusError ==
    \A c \in Callers :
        (/\ Processed(calls[c])
         /\ calls[c].response.val.status \in 400..599
         /\ ExpectedRemaining(calls[c].response.val) # 0)
            => Returns(calls[c], Err(RequestStatusError(calls[c].response.val.status)))

ErrorStatusIsStatusErrorWitness ==
    \E c \in Callers :
        /\ Returns(calls[c], Err(RequestStatusError(403)))
        /\ ExpectedRemaining(calls[c].response.val) = 42
        /\ ExpectedLimit(calls[c].response.val) = 100

\* C3: a call that returns after a response with a success status, a body
\* matching the metadata schema and a remaining count other than 0 returns
\* Ok with the metadata of that body and the two counts of that response
OkCarriesBodyAndCounts ==
    \A c \in Callers :
        (/\ calls[c].pc = "done"
         /\ calls[c].response.some
         /\ IsSuccess(calls[c].response.val.status)
         /\ Decodable(calls[c].response.val.body)
         /\ ExpectedRemaining(calls[c].response.val) # 0)
            => calls[c].result =
                  Some(Ok(<<ExpectedMetadata(calls[c].response.val.body),
                            [remaining |-> ExpectedRemaining(calls[c].response.val),
                             limit |-> ExpectedLimit(calls[c].response.val)]>>))

OkCarriesBodyAndCountsWitness ==
    \E c \in Callers :
        /\ calls[c].pc = "done"
        /\ calls[c].response.some
        /\ calls[c].response.val.status = 200
        /\ calls[c].response.val.body = JsonBody(OkJson)
        /\ calls[c].result.val.ok
        /\ calls[c].result.val.val[2] = [remaining |-> 42, limit |-> 100]

\* a header that is missing or holds no integer text
Defaulted(response) ==
    LET lines == {i \in 1..Len(response.headers) :
                     response.headers[i][1] \in
                         {"x-ratelimit-remaining", "X-RateLimit-Remaining"}}
        first == CHOOSE i \in lines : \A j \in lines : i <= j
    IN lines = {} \/ \A p \in IntegerTexts : p[1] # response.headers[first][2]

\* C4: get_rate_limit_info gives each count as the integer of its header,
\* -1 when the header is missing or holds no integer, one header not
\* affecting the other; a defaulted remaining count does not make the call
\* fail: the status and then the body decide
CountsDefaultSeparately ==
    \A c \in Callers :
        Processed(calls[c]) =>
            LET response == calls[c].response.val
            IN /\ calls[c].rate_limit_info =
                      Some([remaining |-> ExpectedRemaining(response),
                            limit |-> ExpectedLimit(response)])
               /\ Defaulted(response) =>
                    /\ ExpectedRemaining(response) = -1
                    /\ IF response.status \in 400..599
                       THEN Returns(calls[c], Err(RequestStatusError(response.status)))
                       ELSE \/ calls[c].pc = "awaiting_body"
                            \/ /\ Decodable(response.body)
                               /\ calls[c].pc = "done" /\ calls[c].result.val.ok
                            \/ /\ ~Decodable(response.body)
                               /\ Returns(calls[c], Err(DecodeError))

CountsDefaultSeparatelyWitness ==
    \E c \in Callers :
        /\ calls[c].pc = "done"
        /\ calls[c].response.some
        /\ calls[c].response.val.headers = <<<<"x-ratelimit-limit", Bytes("100")>>>>
        /\ calls[c].result.val.ok
        /\ calls[c].result.val.val[2] = [remaining |-> -1, limit |-> 100]

\* C5 as stated: every call that has returned issued exactly one GET
EveryCallIssuesOneGet ==
    \A c \in Callers : calls[c].pc = "done" => calls[c].gets = 1

\* C5 as amended: a call issues at most one GET, exactly one when it returns
\* IOError, RateLimitError, RequestStatusError, DecodeError or Ok and none
\* when it returns InvalidURL; once a call has returned nothing of it
\* changes, and an error carries neither metadata nor rate-limit info
AtMostOneGet ==
    /\ [](\A c \in Callers :
            /\ calls[c].gets <= 1
            /\ calls[c].pc = "done" =>
                 /\ calls[c].gets =
                       (IF ~calls[c].result.val.ok
                           /\ calls[c].result.val.err.kind = "InvalidURL"
                        THEN 0 ELSE 1)
                 /\ ~calls[c].result.val.ok =>
                       /\ DOMAIN calls[c].result.val = {"ok", "err"}
                       /\ DOMAIN calls[c].result.val.err \subseteq {"kind", "status", "source"})
    /\ [][\A c \in Callers :
            /\ calls'[c].gets >= calls[c].gets
            /\ calls[c].pc = "done" => calls'[c] = calls[c]]_vars

AtMostOneGetWitness ==
    \E c \in Callers : Returns(calls[c], Err(IOError)) /\ calls[c].gets = 1

\* the base URLs that are no URL
UnparsableBaseUrls == {"api.nasa.gov/planetary/apod", "", "http://", "http://h:8x/apod"}

\* C6: with a base URL that is no URL, every call returns InvalidURL and has
\* issued no request and looked at no response
InvalidUrlBeforeRequest ==
    client.base_url \in UnparsableBaseUrls =>
        \A c \in Callers :
            calls[c].pc # "idle" =>
                /\ calls[c].pc = "done"
                /\ ~calls[c].result.val.ok
                /\ calls[c].result.val.err.kind = "InvalidURL"
                /\ calls[c].gets = 0
                /\ calls[c].request = None
                /\ calls[c].response = None
                /\ calls[c].rate_limit_info = None

InvalidUrlBeforeRequestWitness ==
    \E c \in Callers :
        /\ client.base_url = "http://"
        /\ calls[c].date = Some(ExplicitDate(1, 6, 1986))
        /\ Returns(calls[c], Err(InvalidURL("EmptyHost")))

\* what a call returns, from its own arguments and its own response alone
OwnOutcome(call) ==
    LET url == build_url(client, call.date.val, call.hd.val)
        r == on_response(call.response.val)
    IN IF ~url.ok THEN Err(url.err)
       ELSE IF ~call.response.some THEN Err(IOError)
       ELSE IF r.returns.some THEN r.returns.val
       ELSE on_body(call.response.val, r.rate_limit_info)

\* C7: no step of any call changes the client, a step of one call changes
\* nothing of another call, and under every interleaving what a call holds
\* and returns is decided by its own arguments and its own response
CallsAreIndependent ==
    /\ [](\A c \in Callers :
            /\ calls[c].rate_limit_info.some =>
                 calls[c].rate_limit_info.val =
                     get_rate_limit_info(headers(calls[c].response.val))
            /\ calls[c].pc = "done" => calls[c].result = Some(OwnOutcome(calls[c])))
    /\ [][/\ client' = client
          /\ \A c, d \in Callers :
                (c # d /\ calls'[c] # calls[c]) => calls'[d] = calls[d]]_vars

CallsAreIndependentWitness ==
    \E c, d \in Callers :
        /\ c # d
        /\ Returns(calls[c], Err(RateLimitError))
        /\ calls[d].pc = "done" /\ calls[d].result.val.ok
        /\ calls[c].hd # calls[d].hd

hd_text(hd) == IF hd THEN "true" ELSE "false"

date_text(date) == IF date.kind = "Today" THEN "" ELSE "&date=" \o as_param(date).val

\* C8 as stated: the URL is the base URL, "?", api_key=<key>, hd=<flag> and,
\* for an explicit date only, date=<as_param value>
UrlIsBasePlusParams ==
    (unit.fn = "build_url" /\ unit.ret.ok) =>
        as_str(unit.ret.val) =
            client.base_url \o "?api_key=" \o client.api_key
                \o "&hd=" \o hd_text(unit.hd) \o date_text(unit.date)

\* the base URLs that are URLs: the URL up to its path in normal form, its
\* query with what separates it from a further parameter, its fragment
ParsableBaseUrls ==
    {<<DefaultBaseUrl, "https://api.nasa.gov/planetary/apod", "?", "">>,
     <<MockBaseUrl, "http://127.0.0.1:1234/apod", "?", "">>,
     <<"https://api.nasa.gov", "https://api.nasa.gov/", "?", "">>,
     <<"https://api.nasa.gov/planetary/apod?v=1",
       "https://api.nasa.gov/planetary/apod", "?v=1&", "">>,
     <<"https://api.nasa.gov/planetary/apod?",
       "https://api.nasa.gov/planetary/apod", "?", "">>,
     <<"https://api.nasa.gov/planetary/apod#top",
       "https://api.nasa.gov/planetary/apod", "?", "#top">>}

\* the API keys as application/x-www-form-urlencoded text
EncodedKeys ==
    {<<"my_key", "my_key">>, <<"MYKEY", "MYKEY">>, <<"a b&c", "a+b%26c">>, <<"", "">>}

\* C8 as amended: the URL is the base URL in normal form with, after the
\* query it already has and before its fragment, api_key=<key, form-
\* urlencoded>, hd=<flag> and, for an explicit date only, date=<as_param
\* value>, in this order
UrlIsNormalBasePlusEncodedParams ==
    unit.fn = "build_url" =>
        /\ unit.ret.ok <=> \E b \in ParsableBaseUrls : b[1] = client.base_url
        /\ unit.ret.ok =>
             LET b == CHOOSE b \in ParsableBaseUrls : b[1] = client.base_url
                 k == CHOOSE k \in EncodedKeys : k[1] = client.api_key
             IN as_str(unit.ret.val) =
                   b[2] \o b[3] \o "api_key=" \o k[2] \o "&hd=" \o hd_text(unit.hd)
                       \o date_text(unit.date) \o b[4]

UrlIsNormalBasePlusEncodedParamsWitness ==
    /\ unit.fn = "build_url"
    /\ client = new("my_key")
    /\ unit.date = ExplicitDate(1, 6, 1986)
    /\ unit.ret.ok
    /\ as_str(unit.ret.val) =
          "https://api.nasa.gov/planetary/apod?api_key=my_key&hd=true&date=1986-06-01"

\* the digit of n at the place 10^k
DigitAt(n, k) == Ch(Digits, ((n \div (10 ^ k)) % 10) + 1)

NumDigits(n) == CHOOSE w \in 1..5 : n < 10 ^ w /\ (w = 1 \/ n >= 10 ^ (w - 1))

\* n in decimal, at least `least` digits wide
RECURSIVE Places(_, _)
Places(n, w) == IF w = 0 THEN "" ELSE DigitAt(n, w - 1) \o Places(n, w - 1)

Decimal(n, least) ==
    Places(n, IF NumDigits(n) > least THEN NumDigits(n) ELSE least)

IsYYYYMMDD(s) ==
    /\ Len(s) = 10
    /\ \A i \in {1, 2, 3, 4, 6, 7, 9, 10} : Ch(s, i) \in IsDigit
    /\ Ch(s, 5) = "-" /\ Ch(s, 8) = "-"

\* C9 as stated: no value for Today, and for every explicit date a text of
\* the shape YYYY-MM-DD
AsParamIsYYYYMMDD ==
    unit.fn = "as_param" =>
        IF unit.date.kind = "Today" THEN unit.ret = None
        ELSE unit.ret.some /\ IsYYYYMMDD(unit.ret.val)

\* C9 as amended: no value for Today, and for every explicit date the year
\* in decimal without padding, a hyphen, the month zero-padded to at least
\* two digits, a hyphen, the day zero-padded to at least two digits; this
\* has the shape YYYY-MM-DD exactly when the year has four digits and the
\* month and the day at most two
AsParamIsYearMonthDay ==
    unit.fn = "as_param" =>
        IF unit.date.kind = "Today" THEN unit.ret = None
        ELSE /\ unit.ret = Some(Decimal(unit.date.year, 1)
                                \o "-" \o Decimal(unit.date.month, 2)
                                \o "-" \o Decimal(unit.date.day, 2))
             /\ IsYYYYMMDD(unit.ret.val) <=>
                   /\ unit.date.year \in 1000..9999
                   /\ unit.date.month <= 99
                   /\ unit.date.day <= 99

AsParamIsYearMonthDayWitness ==
    /\ unit.fn = "as_param"
    /\ unit.date = ExplicitDate(9, 6, 1986)
    /\ unit.ret = Some("1986-06-09")

\* C10: a call that returns Ok never hands out a remaining count of 0
OkNeverCarriesZero ==
    \A c \in Callers :
        (calls[c].pc = "done" /\ calls[c].result.val.ok)
            => calls[c].result.val.val[2].remaining # 0

OkNeverCarriesZeroWitness ==
    \E c \in Callers :
        /\ calls[c].pc = "done"
        /\ calls[c].result.val.ok
        /\ calls[c].result.val.val[2].remaining = 7
        /\ calls[c].response.val.status = 200

=============================================================================
